---- MODULE Spec2Model ----
(***************************************************************************)
(* A model of the sandbox Supervisor (packages/sandbox-runtime and the     *)
(* local-mount variant packages/sandbox) and of the asynchronous Image     *)
(* Builder (packages/modal-infra/src/scheduler/image_builder.py).          *)
(*                                                                         *)
(* The Supervisor is one asyncio coroutine (run) plus the signal handler   *)
(* and the operating system, which ends child processes.  Every action of  *)
(* the coroutine runs from one suspension point (an await that really      *)
(* yields) to the next, so the interleavings of the model are those of     *)
(* the event loop.  Spec is the Supervisor; SpecBuild is the Image Builder *)
(* with its Callback Client.                                               *)
(*                                                                         *)
(* Time in the health prober is counted in ticks of half a second, the     *)
(* prober's poll interval.                                                 *)
(***************************************************************************)
EXTENDS Integers, Sequences, FiniteSets, TLC

\* ------------------------------------------------------------ constants

MAX_RESTARTS == 5
BACKOFF_BASE == 2
BACKOFF_MAX == 60
HEALTH_CHECK_TIMEOUT == 30
HEALTH_CHECK_TIMEOUT_LOCAL == 60
\* asyncio.sleep(0.5) in _wait_for_health is one tick: two ticks a second
TICKS_PER_SECOND == 2
\* client.get(health_url, timeout=2.0)
HEALTH_REQUEST_TIMEOUT == 2

CALLBACK_MAX_RETRIES == 3
CALLBACK_BACKOFF_BASE == 2

\* Exit codes a child or a build sandbox may end with are 0..MaxExitCode.
MaxExitCode == 1
\* the longest callback_url, in pieces
MaxUrlLen == 2

RECURSIVE Pow(_, _)
Pow(b, e) == IF e = 0 THEN 1 ELSE b * Pow(b, e - 1)

Min(a, b) == IF a < b THEN a ELSE b

\* ------------------------------------------------------------ state

VARIABLES
    \* --- Supervisor: configuration (environment, read once in __init__)
    variant,              \* "runtime" (sandbox-runtime) or "local" (sandbox)
    control_plane_url,    \* TRUE iff CONTROL_PLANE_URL is non-empty
    session_id,           \* TRUE iff SESSION_ID is non-empty
    control_plane_ws_url, \* TRUE iff CONTROL_PLANE_WS_URL is non-empty (local)
    git_dir_exists,       \* /workspace/.git is a directory (read by the local variant)
    \* --- Supervisor: runtime state
    pc,                   \* where the coroutine run() is suspended
    in_monitor,           \* TRUE once monitor_processes has been entered
    shutdown_event,
    opencode_ready,
    git_sync_complete,
    opencode_process,     \* the handle self.opencode_process
    bridge_process,       \* the handle self.bridge_process
    restart_count,        \* monitor_processes' local counter for the agent
    bridge_restart_count, \* monitor_processes' local counter for the bridge
    elapsed,              \* ticks since _wait_for_health took start_time (0 outside it)
    fatal_reports,        \* the calls of _report_fatal_error, in order
    \* --- Supervisor: history (observations, read by no action's guard)
    agent_spawns,         \* agent processes created so far
    bridge_spawns,        \* bridge processes created so far
    probe,                \* the current agent's probe: "none", or when its 200 came
    agent_counted,        \* the current agent handle's exit was counted
    bridge_counted,       \* the current bridge handle's exit was counted
    unreaped,             \* handles overwritten or left while returncode was None
    caught,               \* the exception run()'s `except Exception` caught, or ""
    cancel_ticks,         \* ticks the monitor slept with shutdown_event set
    \* --- Image Builder and Callback Client
    b_pc,
    callback_url,         \* TRUE iff callback_url is non-empty
    url,                  \* the text of callback_url, a sequence of pieces
    clone_token,          \* TRUE iff a repo-access token was minted
    base_sha,             \* TRUE iff git rev-parse HEAD was read
    exit_code,            \* the build sandbox's returncode, or -1 before it exits
    snapshot_ok,          \* snapshot_filesystem returned an image
    entered_try,          \* SandboxManager() returned: the try block was entered
    build_error,          \* str(e) of the exception the except block caught
    cb_kind,              \* "none", "success" or "failure": the callback running
    attempt,              \* the loop variable of _callback_with_retry
    cb_log,               \* the callbacks made: one record per _callback_with_retry
    \* --- Web API: one request to one endpoint
    w_pc,                 \* "idle", "request", "awaiting" (a manager call or spawn), "done"
    w_req,                \* the request: endpoint, token, body fields
    w_resp,               \* the JSON response, or NoResponse
    w_ops,                \* manager operations and build spawns invoked, in order
    w_build,              \* the spawned build_repo_image call: "none", "spawned", ...
    \* --- git commands of phases 1 and 2 (runtime variant), step by step
    g_pc,                 \* the next git step of perform_git_sync / configure_git_identity
    g_cfg,                \* repository present, clone token present, git identity present
    g_running,            \* git commands spawned and not yet exited
    g_overlaps            \* <<a, b>>: b was launched (or phase 3 began) while a ran

supConfig == <<variant, control_plane_url, session_id, control_plane_ws_url,
               git_dir_exists>>
supState == <<pc, in_monitor, shutdown_event, opencode_ready, git_sync_complete,
              opencode_process, bridge_process, restart_count,
              bridge_restart_count, elapsed, fatal_reports>>
supHistory == <<agent_spawns, bridge_spawns, probe,
                agent_counted, bridge_counted, unreaped>>
supVars == <<supConfig, supState, supHistory, caught, cancel_ticks>>
buildVars == <<b_pc, callback_url, url, clone_token, base_sha, exit_code, snapshot_ok, entered_try,
               build_error, cb_kind, attempt, cb_log>>
webVars == <<w_pc, w_req, w_resp, w_ops, w_build>>
gitVars == <<g_pc, g_cfg, g_running, g_overlaps>>
vars == <<supVars, buildVars, webVars, gitVars>>

\* ------------------------------------------------------------ processes

\* A child process handle.  present = FALSE is Python's None.  exited is
\* "returncode is not None"; sig is the last signal the Supervisor sent;
\* early records that the process exited right after its spawn, before
\* the first health probe was sent.
NoProcess == [present |-> FALSE, exited |-> FALSE, code |-> 0, sig |-> "none",
              early |-> FALSE]
NewProcess == [present |-> TRUE, exited |-> FALSE, code |-> 0, sig |-> "none",
               early |-> FALSE]

\* (mutant) a handle counts as exited as soon as it exists
HasExited_AnyHandle(p) == p.present

\* `proc and proc.returncode is not None`
HasExited(p) == p.present /\ p.exited
\* `proc and proc.returncode is None`
IsRunning(p) == p.present /\ ~p.exited

\* ------------------------------------------------------------ Supervisor

\* HEALTH_CHECK_TIMEOUT of the variant, in ticks
HealthDeadline ==
    TICKS_PER_SECOND *
        (IF variant = "runtime" THEN HEALTH_CHECK_TIMEOUT
                                ELSE HEALTH_CHECK_TIMEOUT_LOCAL)

\* the longest a single health request may take, in ticks
HealthRequestTicks == TICKS_PER_SECOND * HEALTH_REQUEST_TIMEOUT

\* (mutant) the ceiling is tested one restart late
RestartsExhausted_OneLate(n) == n > MAX_RESTARTS + 1

\* `restart_count > self.MAX_RESTARTS`
RestartsExhausted(n) == n > MAX_RESTARTS

\* (mutant) the delay grows linearly: BACKOFF_BASE * restart_count
BackoffDelay_Linear(n) == Min(BACKOFF_BASE * n, BACKOFF_MAX)

\* `delay = min(self.BACKOFF_BASE**restart_count, self.BACKOFF_MAX)`
BackoffDelay(n) == Min(Pow(BACKOFF_BASE, n), BACKOFF_MAX)

\* When, against HEALTH_CHECK_TIMEOUT, a 200 arrived t ticks after
\* start_time: by the deadline, within one request timeout after it, or
\* later still.
ProbeTiming(t) ==
    IF t <= HealthDeadline THEN "in_time"
    ELSE IF t <= HealthDeadline + HealthRequestTicks THEN "late"
    ELSE "too_late"

\* (mutant) the deadline ends the loop and _wait_for_health returns
HealthDeadlineOutcome_Returns == "return"

\* What _wait_for_health does when its while loop ends on the deadline.
HealthDeadlineOutcome == "raise"

\* How the body of the health loop ends for one response.
HealthResponse(status_ok) == IF status_ok THEN "return" ELSE "sleep"

SupInit ==
    /\ variant \in {"runtime", "local"}
    /\ control_plane_url \in BOOLEAN
    /\ session_id \in BOOLEAN
    /\ control_plane_ws_url \in (IF variant = "local" THEN BOOLEAN ELSE {FALSE})
    /\ git_dir_exists \in (IF variant = "local" THEN BOOLEAN ELSE {TRUE})
    /\ pc = "p1"
    /\ in_monitor = FALSE
    /\ shutdown_event = FALSE
    /\ opencode_ready = FALSE
    /\ git_sync_complete = FALSE
    /\ opencode_process = NoProcess
    /\ bridge_process = NoProcess
    /\ restart_count = 0
    /\ bridge_restart_count = 0
    /\ elapsed = 0
    /\ fatal_reports = <<>>
    /\ agent_spawns = 0
    /\ bridge_spawns = 0
    /\ probe = "none"
    /\ agent_counted = FALSE
    /\ bridge_counted = FALSE
    /\ unreaped = 0
    /\ caught = ""
    /\ cancel_ticks = 0

\* The Supervisor is not running (the Image Builder's specification).
SupIdle ==
    /\ variant = "runtime"
    /\ control_plane_url = FALSE
    /\ session_id = FALSE
    /\ control_plane_ws_url = FALSE
    /\ git_dir_exists = TRUE
    /\ pc = "idle"
    /\ in_monitor = FALSE
    /\ shutdown_event = FALSE
    /\ opencode_ready = FALSE
    /\ git_sync_complete = FALSE
    /\ opencode_process = NoProcess
    /\ bridge_process = NoProcess
    /\ restart_count = 0
    /\ bridge_restart_count = 0
    /\ elapsed = 0
    /\ fatal_reports = <<>>
    /\ agent_spawns = 0
    /\ bridge_spawns = 0
    /\ probe = "none"
    /\ agent_counted = FALSE
    /\ bridge_counted = FALSE
    /\ unreaped = 0
    /\ caught = ""
    /\ cancel_ticks = 0

\* (mutant) _report_fatal_error posts without testing control_plane_url
ReportFatal_AlwaysPosts(msg, n) ==
    fatal_reports' = Append(fatal_reports,
        [msg |-> msg, n |-> n, post |-> "pending"])

\* _report_fatal_error up to its POST: the call is recorded; with no
\* control_plane_url it returns at once, else the POST is awaited.
ReportFatal(msg, n) ==
    fatal_reports' = Append(fatal_reports,
        [msg |-> msg, n |-> n,
         post |-> IF control_plane_url THEN "pending" ELSE "none"])

\* (mutant) the fatal report is started and not awaited: the exception
\* handler goes straight on to shutdown()
Raise_ReportNotAwaited(msg) ==
    /\ caught' = msg
    /\ pc' = "shutdown_bridge"
    /\ IF variant = "runtime"
       THEN ReportFatal(msg, 0)
       ELSE UNCHANGED fatal_reports

\* An exception reaches run()'s `except Exception`: the runtime variant
\* reports it, the local variant only logs; `finally` runs shutdown().
Raise(msg) ==
    /\ caught' = msg
    /\ IF variant = "runtime"
       THEN /\ ReportFatal(msg, 0)
            /\ pc' = IF control_plane_url THEN "fatal_post"
                                          ELSE "shutdown_bridge"
       ELSE /\ pc' = "shutdown_bridge"
            /\ UNCHANGED fatal_reports

\* The local variant's `while not self.shutdown_event.is_set()` followed by
\* its `await asyncio.sleep(1.0)`.
WhileTest == IF shutdown_event THEN "shutdown_bridge" ELSE "mon_sleep"

\* run() calls monitor_processes(): the runtime loop tests the latch and
\* checks the children before it first sleeps, the local loop sleeps first.
EnterMonitor == IF variant = "runtime" THEN "mon_loop" ELSE WhileTest

\* Where the loop goes when the bridge branch falls through.
AfterBridgeBranch == IF variant = "runtime" THEN "mon_sleep" ELSE WhileTest

\* (mutant) after the report the loop goes on instead of breaking
Exhausted_NoBreak(who, n) ==
    IF variant = "runtime"
    THEN /\ ReportFatal(who, n)
         /\ pc' = IF control_plane_url THEN "fatal_post" ELSE "mon_sleep"
         /\ UNCHANGED shutdown_event
    ELSE /\ pc' = "shutdown_bridge"
         /\ UNCHANGED <<fatal_reports, shutdown_event>>

\* A restart counter exceeded MAX_RESTARTS: the runtime variant reports
\* fatal, sets shutdown_event and breaks; the local variant breaks.
Exhausted(who, n) ==
    IF variant = "runtime"
    THEN /\ ReportFatal(who, n)
         /\ IF control_plane_url
            THEN pc' = "fatal_post" /\ UNCHANGED shutdown_event
            ELSE pc' = "shutdown_bridge" /\ shutdown_event' = TRUE
    ELSE /\ pc' = "shutdown_bridge"
         /\ UNCHANGED <<fatal_reports, shutdown_event>>

\* `exit_code == 0` on the bridge's returncode: the runtime variant takes
\* it as a graceful exit; the local variant has no such test.
BridgeGraceful(p) == variant = "runtime" /\ p.code = 0

\* The bridge branch of monitor_processes, up to its next await.
BridgeCheck ==
    IF HasExited(bridge_process)
    THEN IF BridgeGraceful(bridge_process)
         THEN /\ shutdown_event' = TRUE
              /\ pc' = "shutdown_bridge"
              /\ UNCHANGED <<bridge_restart_count, bridge_counted, fatal_reports>>
         ELSE /\ bridge_restart_count' = bridge_restart_count + 1
              /\ bridge_counted' = TRUE
              /\ IF RestartsExhausted(bridge_restart_count + 1)
                 THEN Exhausted("bridge", bridge_restart_count + 1)
                 ELSE /\ pc' = "mon_bridge_backoff"
                      /\ UNCHANGED <<fatal_reports, shutdown_event>>
    ELSE /\ pc' = AfterBridgeBranch
         /\ UNCHANGED <<bridge_restart_count, bridge_counted, fatal_reports,
                        shutdown_event>>

\* The agent branch of monitor_processes followed, when the agent is alive,
\* by the bridge branch: no await lies between the two.
ChildrenCheck ==
    IF HasExited(opencode_process)
    THEN /\ restart_count' = restart_count + 1
         /\ agent_counted' = TRUE
         /\ IF RestartsExhausted(restart_count + 1)
            THEN Exhausted("agent", restart_count + 1)
            ELSE /\ pc' = "mon_agent_backoff"
                 /\ UNCHANGED <<fatal_reports, shutdown_event>>
         /\ UNCHANGED <<bridge_restart_count, bridge_counted>>
    ELSE /\ BridgeCheck
         /\ UNCHANGED <<restart_count, agent_counted>>

\* (mutant) the latch is not cleared before the restart
ReadyAfterClear_Kept(ready) == ready

\* `self.opencode_ready.clear()` before the monitor restarts the agent
ReadyAfterClear(ready) == FALSE

\* Where control goes when start_opencode returns.
AfterStartOpencode == IF in_monitor THEN "mon_bridge_check" ELSE "p5"

\* Where control goes when start_bridge returns.
AfterStartBridge == IF in_monitor THEN AfterBridgeBranch ELSE EnterMonitor

\* `await asyncio.sleep(1.0)` of the monitor loop, in seconds
POLL_INTERVAL == 1

\* The length in ticks of the sleep the coroutine is in at p, the restart
\* counters being n (agent) and m (bridge): the monitor's poll sleep, the
\* sleep(0.5) of start_bridge, or a restart backoff; 0 elsewhere.
SleepTicks(p, n, m) ==
    CASE p = "mon_sleep" -> TICKS_PER_SECOND * POLL_INTERVAL
      [] p = "bridge_sleep" -> 1
      [] p = "mon_agent_backoff" -> TICKS_PER_SECOND * BackoffDelay(n)
      [] p = "mon_bridge_backoff" -> TICKS_PER_SECOND * BackoffDelay(m)
      [] OTHER -> 0

\* While monitor_processes runs with shutdown_event set, every sleep it
\* starts adds its length to cancel_ticks (the time a health probe takes
\* is not counted).
CancelClock ==
    cancel_ticks' =
        IF in_monitor' /\ shutdown_event' /\ pc' # pc
        THEN cancel_ticks + SleepTicks(pc', restart_count', bridge_restart_count')
        ELSE cancel_ticks

\* The ways perform_git_sync ends.  skip_clone: there is no repository and
\* none is configured, nothing is cloned; clone_error: git clone exits non-zero;
\* clone_spawn_error: create_subprocess_exec of the clone raises (it is
\* called before the try block); fetch_error: git fetch exits non-zero;
\* rebase_error: git rebase exits non-zero (aborted, the function goes on);
\* sync_error: an exception inside the try block; synced: no failure.
GitSyncOutcomes ==
    {"skip_clone", "clone_error", "clone_spawn_error", "fetch_error",
     "rebase_error", "sync_error", "synced"}

\* Whether perform_git_sync calls git_sync_complete.set() before it
\* returns: every return does, except the one after a failed fetch.
SyncLatched(outcome) == outcome \notin {"fetch_error", "clone_spawn_error"}

\* Phase 1 of the runtime variant.  perform_git_sync returns (run() ignores
\* its result) or, when the clone cannot be spawned, raises into run().
perform_git_sync ==
    /\ variant = "runtime"
    /\ pc = "p1"
    /\ \E outcome \in GitSyncOutcomes :
          IF outcome = "clone_spawn_error"
          THEN /\ Raise("clone_spawn_error")
               /\ UNCHANGED git_sync_complete
          ELSE /\ git_sync_complete' = SyncLatched(outcome)
               /\ pc' = "p2"
               /\ UNCHANGED <<fatal_reports, caught>>
    /\ UNCHANGED <<supConfig, in_monitor, shutdown_event, opencode_ready,
                   opencode_process, bridge_process, restart_count,
                   bridge_restart_count, elapsed, supHistory, buildVars, webVars, gitVars>>
    /\ CancelClock

\* (mutant) run() ignores verify_workspace's result and goes on to the
\* setup hook
AfterVerify_Ignored(ok) == "p3"

\* run() of the local variant after verify_workspace: `return` inside the
\* try when it is False, so only the `finally` (shutdown) still runs.
AfterVerify(ok) == IF ok THEN "p3" ELSE "shutdown_bridge"

\* Phase 1 of the local variant: without /workspace/.git run() returns.
verify_workspace ==
    /\ variant = "local"
    /\ pc = "p1"
    /\ pc' = AfterVerify(git_dir_exists)
    /\ UNCHANGED <<supConfig, in_monitor, shutdown_event, opencode_ready,
                   git_sync_complete, opencode_process, bridge_process,
                   restart_count, bridge_restart_count, elapsed, fatal_reports,
                   supHistory, buildVars, webVars, gitVars, caught>>
    /\ CancelClock

\* Phase 2 of the runtime variant: every failure is caught and logged.
configure_git_identity ==
    /\ variant = "runtime"
    /\ pc = "p2"
    /\ pc' = "p3"
    /\ UNCHANGED <<supConfig, in_monitor, shutdown_event, opencode_ready,
                   git_sync_complete, opencode_process, bridge_process,
                   restart_count, bridge_restart_count, elapsed, fatal_reports,
                   supHistory, buildVars, webVars, gitVars, caught>>
    /\ CancelClock

\* The setup hook.  The runtime variant catches the ValueError of a
\* malformed SETUP_TIMEOUT_SECONDS; the local variant parses it outside
\* its try block.
run_setup_script ==
    /\ pc = "p3"
    /\ \E outcome \in {"no_script", "complete", "failed", "timeout",
                       "bad_timeout_value"} :
          IF variant = "local" /\ outcome = "bad_timeout_value"
          THEN Raise("setup_timeout_value")
          ELSE pc' = "p4" /\ UNCHANGED <<fatal_reports, caught>>
    /\ UNCHANGED <<supConfig, in_monitor, shutdown_event, opencode_ready,
                   git_sync_complete, opencode_process, bridge_process,
                   restart_count, bridge_restart_count, elapsed, supHistory,
                   buildVars, webVars, gitVars>>
    /\ CancelClock

\* start_opencode up to the end of create_subprocess_exec, called by run()
\* (phase 4) or by monitor_processes after its backoff sleep and
\* opencode_ready.clear().
start_opencode ==
    /\ pc \in {"p4", "mon_agent_backoff"}
    /\ opencode_ready' = IF pc = "mon_agent_backoff"
                          THEN ReadyAfterClear(opencode_ready)
                          ELSE opencode_ready
    /\ \E spawned \in BOOLEAN :
          IF spawned
          THEN /\ opencode_process' = NewProcess
               /\ agent_spawns' = agent_spawns + 1
               /\ agent_counted' = FALSE
               /\ probe' = "none"
               /\ unreaped' = unreaped + (IF IsRunning(opencode_process) THEN 1 ELSE 0)
               /\ elapsed' = 0
               /\ pc' = "health_loop"
               /\ UNCHANGED <<fatal_reports, caught>>
          ELSE /\ Raise("spawn_error")
               /\ UNCHANGED <<opencode_process, agent_spawns, agent_counted,
                              probe, unreaped, elapsed>>
    /\ UNCHANGED <<supConfig, in_monitor, shutdown_event, git_sync_complete,
                   bridge_process, restart_count, bridge_restart_count,
                   bridge_spawns, bridge_counted, buildVars, webVars, gitVars>>
    /\ CancelClock

\* _wait_for_health: the while condition and the shutdown test, up to the
\* GET being sent.
wait_for_health ==
    /\ pc = "health_loop"
    /\ IF elapsed < HealthDeadline
       THEN /\ IF shutdown_event
               THEN Raise("shutdown_requested") /\ elapsed' = 0
               ELSE /\ pc' = "health_request"
                    /\ UNCHANGED <<fatal_reports, caught, elapsed>>
            /\ UNCHANGED opencode_ready
       ELSE /\ elapsed' = 0
            /\ IF HealthDeadlineOutcome = "raise"
               THEN Raise("not_healthy") /\ UNCHANGED opencode_ready
               ELSE /\ opencode_ready' = TRUE
                    /\ pc' = AfterStartOpencode
                    /\ UNCHANGED <<fatal_reports, caught>>
    /\ UNCHANGED <<supConfig, in_monitor, shutdown_event, git_sync_complete,
                   opencode_process, bridge_process, restart_count,
                   bridge_restart_count, supHistory, buildVars, webVars, gitVars>>
    /\ CancelClock

\* _wait_for_health: the GET is answered after d ticks.  Only the agent
\* held in opencode_process listens on the port, so a 200 needs it alive.
\* On 200 _wait_for_health returns and start_opencode sets opencode_ready;
\* otherwise the loop sleeps one tick.
wait_for_health_response ==
    /\ pc = "health_request"
    /\ \E d \in 0 .. HealthRequestTicks, status_ok \in BOOLEAN :
          /\ status_ok => IsRunning(opencode_process)
          /\ IF HealthResponse(status_ok) = "return"
             THEN /\ elapsed' = 0
                  /\ probe' = ProbeTiming(elapsed + d)
                  /\ opencode_ready' = TRUE
                  /\ pc' = AfterStartOpencode
             ELSE /\ elapsed' = elapsed + d + 1
                  /\ pc' = "health_loop"
                  /\ UNCHANGED <<probe, opencode_ready>>
    /\ UNCHANGED <<supConfig, in_monitor, shutdown_event, git_sync_complete,
                   opencode_process, bridge_process, restart_count,
                   bridge_restart_count, fatal_reports, agent_spawns,
                   bridge_spawns, agent_counted, bridge_counted, unreaped,
                   buildVars, webVars, gitVars, caught>>
    /\ CancelClock

\* start_bridge returns before `await self.opencode_ready.wait()`
\* (mutant) the local variant builds the bridge's URL without testing
\* session_id
BridgeSkippedEarly_NoSessionTest ==
    IF variant = "runtime"
    THEN ~control_plane_url
    ELSE ~control_plane_ws_url /\ ~control_plane_url

BridgeSkippedEarly ==
    IF variant = "runtime"
    THEN ~control_plane_url
    ELSE ~control_plane_ws_url /\ (~control_plane_url \/ ~session_id)

\* (mutant) start_bridge also returns without a spawn when the monitor
\* calls it for a restart
BridgeSkippedLate_OnRestart == variant = "runtime" /\ (~session_id \/ in_monitor)

\* start_bridge returns after the wait (runtime: `if not self.session_id`)
BridgeSkippedLate == variant = "runtime" /\ ~session_id

\* start_bridge up to the end of create_subprocess_exec, called by run()
\* (phase 5) or by monitor_processes after its backoff sleep.
start_bridge ==
    /\ pc \in {"p5", "mon_bridge_backoff"}
    /\ IF BridgeSkippedEarly
       THEN /\ pc' = AfterStartBridge
            /\ in_monitor' = TRUE
            /\ UNCHANGED <<bridge_process, bridge_spawns, bridge_counted,
                           unreaped, fatal_reports, caught>>
       ELSE /\ opencode_ready
            /\ IF BridgeSkippedLate
               THEN /\ pc' = AfterStartBridge
                    /\ in_monitor' = TRUE
                    /\ UNCHANGED <<bridge_process, bridge_spawns,
                                   bridge_counted, unreaped, fatal_reports, caught>>
               ELSE \E spawned \in BOOLEAN :
                      IF spawned
                      THEN /\ bridge_process' = NewProcess
                           /\ bridge_spawns' = bridge_spawns + 1
                           /\ bridge_counted' = FALSE
                           /\ unreaped' = unreaped +
                                 (IF IsRunning(bridge_process) THEN 1 ELSE 0)
                           /\ pc' = "bridge_sleep"
                           /\ UNCHANGED <<in_monitor, fatal_reports, caught>>
                      ELSE /\ Raise("spawn_error")
                           /\ UNCHANGED <<bridge_process, bridge_spawns,
                                          bridge_counted, unreaped, in_monitor>>
    /\ UNCHANGED <<supConfig, shutdown_event, opencode_ready, git_sync_complete,
                   opencode_process, restart_count, bridge_restart_count,
                   elapsed, agent_spawns, probe, agent_counted, buildVars, webVars, gitVars>>
    /\ CancelClock

\* start_bridge after `await asyncio.sleep(0.5)`: an early exit is only
\* logged, and start_bridge returns.
start_bridge_early_exit ==
    /\ pc = "bridge_sleep"
    /\ pc' = AfterStartBridge
    /\ in_monitor' = TRUE
    /\ UNCHANGED <<supConfig, shutdown_event, opencode_ready, git_sync_complete,
                   opencode_process, bridge_process, restart_count,
                   bridge_restart_count, elapsed, fatal_reports, supHistory,
                   buildVars, webVars, gitVars, caught>>
    /\ CancelClock

\* monitor_processes after `await asyncio.sleep(1.0)` (and, in the runtime
\* variant, on entry): the runtime variant tests the latch first.
monitor_processes ==
    /\ pc = "mon_loop"
    /\ IF variant = "runtime" /\ shutdown_event
       THEN /\ pc' = "shutdown_bridge"
            /\ UNCHANGED <<shutdown_event, restart_count, bridge_restart_count,
                           fatal_reports, agent_counted, bridge_counted>>
       ELSE ChildrenCheck
    /\ UNCHANGED <<supConfig, in_monitor, opencode_ready, git_sync_complete,
                   opencode_process, bridge_process, elapsed, agent_spawns,
                   bridge_spawns, probe, unreaped, buildVars, webVars, gitVars, caught>>
    /\ CancelClock

\* monitor_processes after the restarted agent became healthy.
monitor_bridge_check ==
    /\ pc = "mon_bridge_check"
    /\ BridgeCheck
    /\ UNCHANGED <<supConfig, in_monitor, opencode_ready, git_sync_complete,
                   opencode_process, bridge_process, restart_count, elapsed,
                   agent_spawns, bridge_spawns, probe, agent_counted,
                   unreaped, buildVars, webVars, gitVars, caught>>
    /\ CancelClock

\* `await asyncio.sleep(1.0)` ends.
monitor_sleep ==
    /\ pc = "mon_sleep"
    /\ pc' = "mon_loop"
    /\ UNCHANGED <<supConfig, in_monitor, shutdown_event, opencode_ready,
                   git_sync_complete, opencode_process, bridge_process,
                   restart_count, bridge_restart_count, elapsed, fatal_reports,
                   supHistory, buildVars, webVars, gitVars, caught>>
    /\ CancelClock

\* _report_fatal_error's POST ends (any failure is caught and logged).  A
\* report made by the monitor is followed by shutdown_event.set(); break.
report_fatal_error ==
    /\ pc = "fatal_post"
    /\ LET last == Len(fatal_reports) IN
       /\ \E posted \in BOOLEAN :
             fatal_reports' = [fatal_reports EXCEPT
                 ![last].post = IF posted THEN "delivered" ELSE "failed"]
       /\ shutdown_event' =
             (shutdown_event \/ fatal_reports[last].msg \in {"agent", "bridge"})
    /\ pc' = "shutdown_bridge"
    /\ UNCHANGED <<supConfig, in_monitor, opencode_ready, git_sync_complete,
                   opencode_process, bridge_process, restart_count,
                   bridge_restart_count, elapsed, supHistory, buildVars, webVars, gitVars, caught>>
    /\ CancelClock

\* (mutant) terminate is sent without the returncode test
NeedsTerminate_AnyHandle(p) == p.present

\* `if self.bridge_process and self.bridge_process.returncode is None:`
\* and the same test on the agent, in shutdown()
NeedsTerminate(p) == IsRunning(p)

\* shutdown(): the agent's part up to its await.
ShutdownAgent ==
    IF NeedsTerminate(opencode_process)
    THEN /\ opencode_process' = [opencode_process EXCEPT !.sig = "terminate"]
         /\ pc' = "shutdown_agent_wait"
    ELSE /\ pc' = "done"
         /\ UNCHANGED opencode_process

\* shutdown(): the bridge is terminated first; a bridge that is absent or
\* has exited is skipped and the agent's part follows at once.
shutdown ==
    /\ pc = "shutdown_bridge"
    /\ IF NeedsTerminate(bridge_process)
       THEN /\ bridge_process' = [bridge_process EXCEPT !.sig = "terminate"]
            /\ pc' = "shutdown_bridge_wait"
            /\ UNCHANGED opencode_process
       ELSE /\ ShutdownAgent
            /\ UNCHANGED bridge_process
    /\ UNCHANGED <<supConfig, in_monitor, shutdown_event, opencode_ready,
                   git_sync_complete, restart_count, bridge_restart_count,
                   elapsed, fatal_reports, supHistory, buildVars, webVars, gitVars, caught>>
    /\ CancelClock

\* The outcome of `wait_for(proc.wait(), timeout)` on a terminated child:
\* it exits in time, or TimeoutError is caught and kill() is sent.  kill()
\* is not awaited, so returncode stays None until the loop runs again.
WaitOrKill(p, in_time) ==
    IF in_time THEN [p EXCEPT !.exited = TRUE, !.code = -15]
               ELSE [p EXCEPT !.sig = "kill"]

shutdown_bridge_wait ==
    /\ pc = "shutdown_bridge_wait"
    /\ \E in_time \in BOOLEAN :
          bridge_process' = WaitOrKill(bridge_process, in_time)
    /\ ShutdownAgent
    /\ UNCHANGED <<supConfig, in_monitor, shutdown_event, opencode_ready,
                   git_sync_complete, restart_count, bridge_restart_count,
                   elapsed, fatal_reports, supHistory, buildVars, webVars, gitVars, caught>>
    /\ CancelClock

shutdown_agent_wait ==
    /\ pc = "shutdown_agent_wait"
    /\ \E in_time \in BOOLEAN :
          opencode_process' = WaitOrKill(opencode_process, in_time)
    /\ pc' = "done"
    /\ UNCHANGED <<supConfig, in_monitor, shutdown_event, opencode_ready,
                   git_sync_complete, bridge_process, restart_count,
                   bridge_restart_count, elapsed, fatal_reports, supHistory,
                   buildVars, webVars, gitVars, caught>>
    /\ CancelClock

\* --- the environment of the Supervisor

Running == pc \notin {"done", "idle"}

\* The agent process ends by itself and the loop records its returncode.
\* The Supervisor only logs the agent's exit code: 1 stands for any code.
agent_exit ==
    /\ Running
    /\ IsRunning(opencode_process)
    /\ opencode_process.sig = "none"
    /\ opencode_process' = [opencode_process EXCEPT
           !.exited = TRUE, !.code = 1,
           !.early = (pc = "health_loop" /\ elapsed = 0)]
    /\ UNCHANGED <<supConfig, pc, in_monitor, shutdown_event, opencode_ready,
                   git_sync_complete, bridge_process, restart_count,
                   bridge_restart_count, elapsed, fatal_reports, supHistory,
                   buildVars, webVars, gitVars, caught, cancel_ticks>>

\* The bridge process ends by itself: 0 is its graceful exit.
bridge_exit ==
    /\ Running
    /\ IsRunning(bridge_process)
    /\ bridge_process.sig = "none"
    /\ \E code \in 0 .. MaxExitCode :
          bridge_process' = [bridge_process EXCEPT !.exited = TRUE,
                                                   !.code = code]
    /\ UNCHANGED <<supConfig, pc, in_monitor, shutdown_event, opencode_ready,
                   git_sync_complete, opencode_process, restart_count,
                   bridge_restart_count, elapsed, fatal_reports, supHistory,
                   buildVars, webVars, gitVars, caught, cancel_ticks>>

\* The killed bridge is reaped while shutdown() awaits the agent.
bridge_reaped ==
    /\ pc = "shutdown_agent_wait"
    /\ IsRunning(bridge_process)
    /\ bridge_process.sig = "kill"
    /\ bridge_process' = [bridge_process EXCEPT !.exited = TRUE, !.code = -9]
    /\ UNCHANGED <<supConfig, pc, in_monitor, shutdown_event, opencode_ready,
                   git_sync_complete, opencode_process, restart_count,
                   bridge_restart_count, elapsed, fatal_reports, supHistory,
                   buildVars, webVars, gitVars, caught, cancel_ticks>>

\* SIGTERM or SIGINT: _handle_signal sets shutdown_event.  When it comes
\* while the monitor sleeps, `left` ticks of that sleep remain: the signal
\* comes at the end of the sleep or at its start.
handle_signal ==
    /\ Running
    /\ ~shutdown_event
    /\ shutdown_event' = TRUE
    /\ UNCHANGED <<supConfig, pc, in_monitor, opencode_ready,
                   git_sync_complete, opencode_process, bridge_process,
                   restart_count, bridge_restart_count, elapsed, fatal_reports,
                   supHistory, buildVars, webVars, gitVars, caught>>
    /\ \E left \in {0, SleepTicks(pc, restart_count, bridge_restart_count)} :
          cancel_ticks' = IF in_monitor THEN left ELSE cancel_ticks

\* ------------------------------------------------------------ Image Builder

\* Status codes a callback POST may be answered with.
StatusCodes == {200, 204, 302, 404, 503}

\* (mutant) only 4xx and 5xx statuses raise
RaiseForStatus_ErrorsOnly(status) == status >= 400

\* `response.raise_for_status()` returns for a 2xx status and raises
\* HTTPStatusError for any other.
RaiseForStatus(status) == ~(200 <= status /\ status <= 299)

\* `delay = CALLBACK_BACKOFF_BASE ** (attempt + 1)`
CallbackDelay(a) == Pow(CALLBACK_BACKOFF_BASE, a + 1)

\* (mutant) the sleep follows every failed attempt
SleepsAfter_Always(a) == a < CALLBACK_MAX_RETRIES

\* `if attempt < CALLBACK_MAX_RETRIES - 1:` guards the sleep
SleepsAfter(a) == a < CALLBACK_MAX_RETRIES - 1

\* `for attempt in range(CALLBACK_MAX_RETRIES)` has another iteration
LoopContinues(a) == a + 1 < CALLBACK_MAX_RETRIES

\* (mutant) the used-up loop raises instead of returning False
CallbackExhaustedOutcome_Raises == "raise"

\* What _callback_with_retry does when the loop is used up.
CallbackExhaustedOutcome == "return_false"

\* `if callback_url:` in the except block of build_repo_image
FailureCallbackWanted == callback_url

\* `if callback_url:` at the end of the try block of build_repo_image
SuccessCallbackWanted == callback_url

\* The pieces a callback_url is made of: the text "/build-complete" and
\* any text that does not hold it.
UrlPieces == {"/build-complete", "/x"}

\* The callback_url values of at most MaxUrlLen pieces; <<>> is "".
Urls == UNION {[1 .. n -> UrlPieces] : n \in 0 .. MaxUrlLen}

\* `callback_url.replace("/build-complete", "/build-failed")`: str.replace
\* replaces every occurrence.
FailureUrl(u) ==
    [i \in DOMAIN u |-> IF u[i] = "/build-complete" THEN "/build-failed"
                                                    ELSE u[i]]

\* str(e) of the exception the except block caught: its text and, for a
\* BuildError, the exit code the text ends with.
NoError == [text |-> "", code |-> 0]
ErrorText(text) == [text |-> text, code |-> 0]

\* `BuildError(f"Build sandbox exited with code {exit_code}")`
ExitError(code) == [text |-> "Build sandbox exited with code", code |-> code]

\* (mutant) the sandbox's exit code is not tested
ExitedNonZero_Unchecked(code) == FALSE

\* `if exit_code != 0:` after the build sandbox's wait()
ExitedNonZero(code) == code # 0

\* A response with a 2xx status.
Is2xx(status) == 200 <= status /\ status <= 299

\* The Image Builder is not running (the Supervisor's specification).
BuildIdle ==
    /\ b_pc = "idle"
    /\ callback_url = FALSE
    /\ url = <<>>
    /\ clone_token = FALSE
    /\ base_sha = FALSE
    /\ exit_code = -1
    /\ snapshot_ok = FALSE
    /\ entered_try = FALSE
    /\ build_error = NoError
    /\ cb_kind = "none"
    /\ attempt = 0
    /\ cb_log = <<>>

BuildInit ==
    /\ b_pc = "start"
    /\ url \in Urls
    /\ callback_url = (url # <<>>)
    /\ clone_token = FALSE
    /\ base_sha = FALSE
    /\ exit_code = -1
    /\ snapshot_ok = FALSE
    /\ entered_try = FALSE
    /\ build_error = NoError
    /\ cb_kind = "none"
    /\ attempt = 0
    /\ cb_log = <<>>

\* _callback_with_retry is called: a new record of what it does.
\* The success callback goes to callback_url with the build's result, the
\* failure callback to the failure URL with {build_id, error}.
NewCallback(kind) ==
    [kind |-> kind, attempts |-> 0, mints |-> 0, mint_errors |-> 0,
     token |-> 0, sent |-> <<>>, requests |-> 0,
     sleeps |-> <<>>, got_2xx |-> FALSE, late_requests |-> 0,
     returned |-> "pending",
     url |-> IF kind = "failure" THEN FailureUrl(url) ELSE url,
     error |-> IF kind = "failure" THEN build_error' ELSE NoError]

CallCallback(kind) ==
    /\ cb_kind' = kind
    /\ attempt' = 0
    /\ cb_log' = Append(cb_log, NewCallback(kind))
    /\ b_pc' = "cb_attempt"

\* The except block of build_repo_image: log, then the failure callback.
Fail(error) ==
    /\ build_error' = error
    /\ IF FailureCallbackWanted
       THEN CallCallback("failure")
       ELSE /\ b_pc' = "done"
            /\ UNCHANGED <<cb_kind, attempt, cb_log>>

\* build_repo_image up to create_build_sandbox: SandboxManager() is
\* constructed before the try block; a failure to mint the clone token is
\* caught and logged.
build_repo_image ==
    /\ b_pc = "start"
    /\ \E manager_ok \in BOOLEAN,
          token \in {"minted", "no_credentials", "mint_error"} :
          IF manager_ok
          THEN /\ entered_try' = TRUE
               /\ clone_token' = (token = "minted")
               /\ b_pc' = "create_build_sandbox"
          ELSE /\ entered_try' = FALSE
               /\ b_pc' = "raised"
               /\ UNCHANGED clone_token
    /\ UNCHANGED <<supVars, webVars, gitVars, callback_url, url, base_sha, exit_code, snapshot_ok,
                   build_error, cb_kind, attempt, cb_log>>

\* `await manager.create_build_sandbox(...)` returns a handle or raises.
create_build_sandbox ==
    /\ b_pc = "create_build_sandbox"
    /\ \E created \in BOOLEAN :
          IF created
          THEN /\ b_pc' = "wait"
               /\ UNCHANGED <<build_error, cb_kind, attempt, cb_log>>
          ELSE Fail(ErrorText("create_build_sandbox failed"))
    /\ UNCHANGED <<supVars, webVars, gitVars, callback_url, url, clone_token, base_sha, exit_code,
                   snapshot_ok, entered_try>>

\* `handle.modal_sandbox.wait()`; a non-zero returncode raises BuildError.
sandbox_wait ==
    /\ b_pc = "wait"
    /\ \E code \in 0 .. MaxExitCode :
          /\ exit_code' = code
          /\ IF ExitedNonZero(code)
             THEN Fail(ExitError(code))
             ELSE /\ b_pc' = "snapshot"
                  /\ UNCHANGED <<build_error, cb_kind, attempt, cb_log>>
    /\ UNCHANGED <<supVars, webVars, gitVars, callback_url, url, clone_token, base_sha, snapshot_ok,
                   entered_try>>

\* (mutant) an exception in _read_sandbox_head_sha is not caught
HeadShaErrorOutcome_Raises == "raise"

\* _read_sandbox_head_sha's `except Exception`: it logs and returns ""
HeadShaErrorOutcome == "empty"

\* _read_sandbox_head_sha (its failure is caught), snapshot_filesystem,
\* and the success callback when callback_url is set.
snapshot_filesystem ==
    /\ b_pc = "snapshot"
    /\ \E sha_read \in BOOLEAN, snapshot \in BOOLEAN :
          /\ base_sha' = sha_read
          /\ IF ~sha_read /\ HeadShaErrorOutcome = "raise"
             THEN /\ UNCHANGED snapshot_ok
                  /\ Fail(ErrorText("git rev-parse HEAD failed"))
             ELSE /\ snapshot_ok' = snapshot
                  /\ IF snapshot
                     THEN /\ IF SuccessCallbackWanted
                             THEN CallCallback("success")
                             ELSE /\ b_pc' = "done"
                                  /\ UNCHANGED <<cb_kind, attempt, cb_log>>
                          /\ UNCHANGED build_error
                     ELSE Fail(ErrorText("snapshot_filesystem failed"))
    /\ UNCHANGED <<supVars, webVars, gitVars, callback_url, url, clone_token, exit_code, entered_try>>

\* _callback_with_retry returns to build_repo_image, which then returns.
CallbackReturns(log, value) ==
    /\ cb_log' = [log EXCEPT ![Len(log)].returned = value]
    /\ b_pc' = "done"
    /\ UNCHANGED <<cb_kind, attempt, build_error>>

\* An exception leaves _callback_with_retry: raised by the success
\* callback it is caught by build_repo_image's except block, raised by the
\* failure callback it leaves build_repo_image.
CallbackRaises(log) ==
    IF cb_kind = "success"
    THEN /\ build_error' = ErrorText("callback raised")
         /\ IF FailureCallbackWanted
            THEN /\ cb_kind' = "failure"
                 /\ attempt' = 0
                 /\ cb_log' = Append([log EXCEPT ![Len(log)].returned = "raised"],
                                     NewCallback("failure"))
                 /\ b_pc' = "cb_attempt"
            ELSE /\ cb_log' = [log EXCEPT ![Len(log)].returned = "raised"]
                 /\ b_pc' = "done"
                 /\ UNCHANGED <<cb_kind, attempt>>
    ELSE /\ cb_log' = [log EXCEPT ![Len(log)].returned = "raised"]
         /\ b_pc' = "raised"
         /\ UNCHANGED <<cb_kind, attempt, build_error>>

\* The for loop of _callback_with_retry goes on after attempt `attempt`:
\* to the next attempt, or past its end to `return False`.
NextIteration(log) ==
    IF LoopContinues(attempt)
    THEN /\ cb_log' = log
         /\ attempt' = attempt + 1
         /\ b_pc' = "cb_attempt"
         /\ UNCHANGED <<cb_kind, build_error>>
    ELSE IF CallbackExhaustedOutcome = "return_false"
         THEN CallbackReturns(log, "false")
         ELSE CallbackRaises(log)

\* The `except Exception` branch of the retry loop for attempt `attempt`,
\* on the log as the attempt left it.
AttemptFailed(log) ==
    IF SleepsAfter(attempt)
    THEN /\ cb_log' = [log EXCEPT ![Len(log)].sleeps =
                           Append(@, CallbackDelay(attempt))]
         /\ b_pc' = "cb_sleep"
         /\ UNCHANGED <<cb_kind, attempt, build_error>>
    ELSE NextIteration(log)

\* (mutant) the token is minted in the first attempt only and kept for
\* the retries
MintsToken_FirstAttemptOnly(a) == a = 0

\* Attempt `a` of the retry loop calls generate_internal_token(): the call
\* is the first statement of the loop body.
MintsToken(a) == a \in 0 .. CALLBACK_MAX_RETRIES - 1

\* The loop body up to the POST, on the callback's record: the attempt is
\* counted; a mint that returns makes token number `mints`, a mint that
\* raises leaves the variable `token` as it was.
Minted(rec, a, minted) ==
    IF MintsToken(a)
    THEN [rec EXCEPT !.attempts = @ + 1,
                     !.mints = @ + 1,
                     !.mint_errors = @ + (IF minted THEN 0 ELSE 1),
                     !.token = IF minted THEN rec.mints + 1 ELSE @]
    ELSE [rec EXCEPT !.attempts = @ + 1]

\* One iteration of the retry loop up to the POST: the token is minted,
\* and when generate_internal_token raises no request is made.  The
\* request carries the token the variable `token` holds.
callback_attempt ==
    /\ b_pc = "cb_attempt"
    /\ \E minted \in BOOLEAN :
          LET log == [cb_log EXCEPT ![Len(cb_log)] = Minted(@, attempt, minted)]
          IN IF ~MintsToken(attempt) \/ minted
             THEN /\ cb_log' = [log EXCEPT
                        ![Len(log)].requests = @ + 1,
                        ![Len(log)].sent =
                            Append(@, [attempt |-> attempt + 1,
                                       token |-> log[Len(log)].token]),
                        ![Len(log)].late_requests =
                            @ + (IF log[Len(log)].got_2xx THEN 1 ELSE 0)]
                  /\ b_pc' = "cb_post"
                  /\ UNCHANGED <<cb_kind, attempt, build_error>>
             ELSE AttemptFailed(log)
    /\ UNCHANGED <<supVars, webVars, gitVars, callback_url, url, clone_token, base_sha, exit_code,
                   snapshot_ok, entered_try>>

\* The POST ends: a connection error, a timeout, or a response.
callback_response ==
    /\ b_pc = "cb_post"
    /\ \/ \E status \in StatusCodes :
             LET log == [cb_log EXCEPT ![Len(cb_log)].got_2xx =
                                           @ \/ Is2xx(status)]
             IN IF RaiseForStatus(status)
                THEN AttemptFailed(log)
                ELSE CallbackReturns(log, "true")
       \/ \E error \in {"connect_error", "timeout"} :
             AttemptFailed(cb_log)
    /\ UNCHANGED <<supVars, webVars, gitVars, callback_url, url, clone_token, base_sha, exit_code,
                   snapshot_ok, entered_try>>

\* `await asyncio.sleep(delay)` ends and the loop goes on.
callback_sleep ==
    /\ b_pc = "cb_sleep"
    /\ NextIteration(cb_log)
    /\ UNCHANGED <<supVars, webVars, gitVars, callback_url, url, clone_token, base_sha, exit_code,
                   snapshot_ok, entered_try>>

\* ------------------------------------------------------------ web API

\* The authenticated endpoints of web_api.py (api_health takes no token).
Endpoints ==
    {"api_create_sandbox", "api_warm_sandbox", "api_snapshot",
     "api_snapshot_sandbox", "api_restore_sandbox", "api_build_repo_image",
     "api_delete_provider_image"}

\* What verify_internal_token does with the Authorization header: returns
\* True, returns False, or raises AuthConfigurationError.
Auths == {"valid", "invalid", "misconfigured"}

\* The body fields an endpoint tests for presence.
RequiredFields(e) ==
    CASE e = "api_create_sandbox" ->
            {"session_id", "repo_owner", "repo_name", "sandbox_auth_token"}
      [] e = "api_warm_sandbox" -> {"repo_owner", "repo_name"}
      [] e = "api_snapshot_sandbox" -> {"sandbox_id"}
      [] e = "api_restore_sandbox" -> {"snapshot_image_id"}
      [] e = "api_build_repo_image" -> {"repo_owner", "repo_name", "build_id"}
      [] e = "api_delete_provider_image" -> {"provider_image_id"}
      [] OTHER -> {}

\* The endpoints that call require_valid_control_plane_url.
ChecksControlPlaneUrl(e) ==
    e \in {"api_create_sandbox", "api_warm_sandbox", "api_restore_sandbox"}

\* The endpoints that read timeout_seconds.
ReadsTimeout(e) == e \in {"api_create_sandbox", "api_restore_sandbox"}

\* Values of the body's timeout_seconds: absent or null; the integer 3600;
\* the string "45"; the float 2.5 (v in tenths); true; the string
\* "not-an-int"; a list; the float 1e999, which JSON parsing reads as inf.
TimeoutRaws ==
    {[type |-> "none", v |-> 0], [type |-> "int", v |-> 3600],
     [type |-> "str_int", v |-> 45], [type |-> "float", v |-> 25],
     [type |-> "bool", v |-> 1], [type |-> "str_text", v |-> 0],
     [type |-> "list", v |-> 0], [type |-> "float_inf", v |-> 0]}

\* Python's int(raw): the integer, or the exception it raises.
IntOf(raw) ==
    CASE raw.type \in {"int", "str_int", "bool"} -> [exc |-> "", v |-> raw.v]
      [] raw.type = "float" -> [exc |-> "", v |-> raw.v \div 10]
      [] raw.type = "str_text" -> [exc |-> "ValueError", v |-> 0]
      [] raw.type = "list" -> [exc |-> "TypeError", v |-> 0]
      [] raw.type = "float_inf" -> [exc |-> "OverflowError", v |-> 0]
      [] OTHER -> [exc |-> "TypeError", v |-> 0]

\* The timeout_seconds the handler passes on: DEFAULT_SANDBOX_TIMEOUT_SECONDS
\* when the body has none, else int(raw).
TimeoutSeconds(raw) ==
    IF raw.type = "none"
    THEN [default |-> TRUE, v |-> 0]
    ELSE [default |-> FALSE, v |-> IntOf(raw).v]

NoTimeout == [default |-> TRUE, v |-> 0]

\* The requests: an endpoint, what the token check does, the
\* control_plane_url (absent, allowed, not allowed), the required fields
\* that are missing or empty, and timeout_seconds.
RequestsTo(e) ==
    [endpoint : {e},
     auth : Auths,
     cp_url : IF ChecksControlPlaneUrl(e) THEN {"absent", "valid", "invalid"}
                                          ELSE {"absent"},
     missing : SUBSET RequiredFields(e),
     timeout : IF ReadsTimeout(e) THEN TimeoutRaws
                                  ELSE {[type |-> "none", v |-> 0]}]

Requests == UNION {RequestsTo(e) : e \in Endpoints}

NoRequest ==
    [endpoint |-> "", auth |-> "valid", cp_url |-> "absent", missing |-> {},
     timeout |-> [type |-> "none", v |-> 0]]

NoResponse ==
    [status |-> 0, success |-> FALSE, code |-> "", message |-> "", data |-> ""]

\* _error_code_for_status
ErrorCodeForStatus(status_code) ==
    CASE status_code = 400 -> "bad_request"
      [] status_code = 401 -> "unauthorized"
      [] status_code = 403 -> "forbidden"
      [] status_code = 404 -> "not_found"
      [] status_code = 409 -> "conflict"
      [] status_code = 422 -> "validation_error"
      [] status_code = 429 -> "rate_limited"
      [] status_code = 503 -> "service_unavailable"
      [] status_code >= 500 -> "internal_error"
      [] OTHER -> "request_failed"

\* error_response(status_code=..., message=...): the code is derived
\* from the status.
ErrorResponse(status_code, message) ==
    [status |-> status_code, success |-> FALSE,
     code |-> ErrorCodeForStatus(status_code), message |-> message,
     data |-> ""]

\* success_response(data)
SuccessResponse(data) ==
    [status |-> 200, success |-> TRUE, code |-> "", message |-> "",
     data |-> data]

\* What leaves the try block: nothing, an HTTPException(status, detail),
\* or another exception.
NoException == [kind |-> "none", status |-> 0, detail |-> ""]
HTTPException(status_code, detail) ==
    [kind |-> "http", status |-> status_code, detail |-> detail]
OtherException == [kind |-> "exception", status |-> 500, detail |-> ""]

\* (mutant) the token is not verified
RequireAuth_Open(auth) == NoException

\* require_auth: 401 when verify_internal_token returns False, 503 when
\* it raises AuthConfigurationError.
RequireAuth(auth) ==
    CASE auth = "invalid" ->
            HTTPException(401,
                "Unauthorized: Invalid or missing authentication token")
      [] auth = "misconfigured" ->
            HTTPException(503,
                "Service unavailable: Authentication not configured.")
      [] OTHER -> NoException

\* require_valid_control_plane_url
RequireValidControlPlaneUrl(req) ==
    IF ChecksControlPlaneUrl(req.endpoint) /\ req.cp_url = "invalid"
    THEN HTTPException(400, "Invalid control_plane_url")
    ELSE NoException

\* The presence tests of the body fields, in the order of the code.
RequireFields(req) ==
    LET e == req.endpoint
        m == req.missing
    IN CASE e = "api_build_repo_image" /\ m \cap {"repo_owner", "repo_name"} # {} ->
               HTTPException(400, "repo_owner and repo_name are required")
         [] e = "api_build_repo_image" /\ "build_id" \in m ->
               HTTPException(400, "build_id is required")
         [] e # "api_build_repo_image" /\ "session_id" \in m ->
               HTTPException(400, "session_id is required")
         [] e # "api_build_repo_image" /\ "session_id" \notin m
               /\ "repo_owner" \in m ->
               HTTPException(400, "repo_owner is required")
         [] e # "api_build_repo_image" /\ m \cap {"session_id", "repo_owner"} = {}
               /\ "repo_name" \in m ->
               HTTPException(400, "repo_name is required")
         [] e = "api_create_sandbox" /\ m = {"sandbox_auth_token"} ->
               HTTPException(400, "sandbox_auth_token is required")
         [] "sandbox_id" \in m ->
               HTTPException(400, "sandbox_id is required")
         [] "snapshot_image_id" \in m ->
               HTTPException(400, "snapshot_image_id is required")
         [] "provider_image_id" \in m ->
               HTTPException(400, "provider_image_id is required")
         [] OTHER -> NoException

\* `int(timeout_seconds_raw)` under `except (TypeError, ValueError)`: any
\* other exception of int() leaves the try block as it is.
ParseTimeout(req) ==
    IF ReadsTimeout(req.endpoint) /\ req.timeout.type # "none"
    THEN CASE IntOf(req.timeout).exc \in {"TypeError", "ValueError"} ->
                 HTTPException(400, "timeout_seconds must be an integer")
           [] IntOf(req.timeout).exc = "" -> NoException
           [] OTHER -> OtherException
    ELSE NoException

\* The first exception the handler's checks raise, in the order of the
\* code: the token, the control_plane_url, the body fields, the timeout.
FirstError(req) ==
    IF RequireAuth(req.auth) # NoException THEN RequireAuth(req.auth)
    ELSE IF RequireValidControlPlaneUrl(req) # NoException
    THEN RequireValidControlPlaneUrl(req)
    ELSE IF RequireFields(req) # NoException THEN RequireFields(req)
    ELSE ParseTimeout(req)

\* The message of the 500 response of each endpoint's `except Exception`.
FailureMessage(e) ==
    CASE e = "api_create_sandbox" -> "Failed to create sandbox"
      [] e = "api_warm_sandbox" -> "Failed to warm sandbox"
      [] e = "api_snapshot" -> "Failed to fetch snapshot"
      [] e = "api_snapshot_sandbox" -> "Failed to snapshot sandbox"
      [] e = "api_restore_sandbox" -> "Failed to restore sandbox"
      [] e = "api_build_repo_image" -> "Failed to start image build"
      [] OTHER -> "Failed to delete provider image"

\* The response to what left the try block: `except HTTPException`
\* answers with the exception's status and detail, `except Exception`
\* with 500 and the endpoint's message.
ResponseTo(e, exception) ==
    IF exception.kind = "http"
    THEN ErrorResponse(exception.status, exception.detail)
    ELSE ErrorResponse(500, FailureMessage(e))

\* The parameters of build_repo_image.
BuildRepoImageParams ==
    {"repo_owner", "repo_name", "default_branch", "callback_url", "build_id"}

\* The keyword arguments api_build_repo_image passes to
\* build_repo_image.spawn.aio.
SpawnKwargs ==
    {"repo_owner", "repo_name", "default_branch", "callback_url", "build_id",
     "user_env_vars"}

\* The call the handler awaits once its checks have passed.
Operation(req) ==
    CASE req.endpoint = "api_create_sandbox" ->
            [op |-> "create_sandbox", timeout |-> TimeoutSeconds(req.timeout),
             kwargs |-> {}]
      [] req.endpoint = "api_warm_sandbox" ->
            [op |-> "warm_sandbox", timeout |-> NoTimeout, kwargs |-> {}]
      [] req.endpoint = "api_snapshot" ->
            [op |-> "get_latest_snapshot", timeout |-> NoTimeout, kwargs |-> {}]
      [] req.endpoint = "api_snapshot_sandbox" ->
            [op |-> "get_sandbox_by_id", timeout |-> NoTimeout, kwargs |-> {}]
      [] req.endpoint = "api_restore_sandbox" ->
            [op |-> "restore_from_snapshot",
             timeout |-> TimeoutSeconds(req.timeout), kwargs |-> {}]
      [] OTHER ->
            [op |-> "build_repo_image.spawn", timeout |-> NoTimeout,
             kwargs |-> SpawnKwargs]

TakeSnapshot == [op |-> "take_snapshot", timeout |-> NoTimeout, kwargs |-> {}]

\* No request is being handled (the other specifications).
WebIdle ==
    /\ w_pc = "idle"
    /\ w_req = NoRequest
    /\ w_resp = NoResponse
    /\ w_ops = <<>>
    /\ w_build = "none"

WebInit ==
    /\ w_pc = "request"
    /\ w_req \in Requests
    /\ w_resp = NoResponse
    /\ w_ops = <<>>
    /\ w_build = "none"

\* The handler returns `response`.
Respond(response) ==
    /\ w_resp' = response
    /\ w_pc' = "done"

\* A handler from its entry to its first await or its response: the
\* checks, then (where the endpoint has one) SandboxManager(), then the
\* awaited call.
Handler(e, has_manager) ==
    /\ w_pc = "request"
    /\ w_req.endpoint = e
    /\ IF FirstError(w_req) # NoException
       THEN /\ Respond(ResponseTo(e, FirstError(w_req)))
            /\ UNCHANGED w_ops
       ELSE \E manager_ok \in (IF has_manager THEN BOOLEAN ELSE {TRUE}) :
               IF manager_ok
               THEN /\ w_ops' = Append(w_ops, Operation(w_req))
                    /\ w_pc' = "awaiting"
                    /\ UNCHANGED w_resp
               ELSE /\ Respond(ResponseTo(e, OtherException))
                    /\ UNCHANGED w_ops
    /\ UNCHANGED <<supVars, buildVars, gitVars, w_req, w_build>>

api_create_sandbox == Handler("api_create_sandbox", TRUE)

api_warm_sandbox == Handler("api_warm_sandbox", TRUE)

api_snapshot_sandbox == Handler("api_snapshot_sandbox", TRUE)

api_restore_sandbox == Handler("api_restore_sandbox", TRUE)

api_build_repo_image == Handler("api_build_repo_image", FALSE)

\* api_snapshot is synchronous: the store is read and the response made.
api_snapshot ==
    /\ w_pc = "request"
    /\ w_req.endpoint = "api_snapshot"
    /\ IF FirstError(w_req) # NoException
       THEN /\ Respond(ResponseTo("api_snapshot", FirstError(w_req)))
            /\ UNCHANGED w_ops
       ELSE \E read \in BOOLEAN :
               /\ w_ops' = Append(w_ops, Operation(w_req))
               /\ Respond(IF read THEN SuccessResponse("snapshot")
                          ELSE ResponseTo("api_snapshot", OtherException))
    /\ UNCHANGED <<supVars, buildVars, gitVars, w_req, w_build>>

\* api_delete_provider_image only logs the request.
api_delete_provider_image ==
    /\ w_pc = "request"
    /\ w_req.endpoint = "api_delete_provider_image"
    /\ Respond(IF FirstError(w_req) # NoException
               THEN ResponseTo("api_delete_provider_image", FirstError(w_req))
               ELSE SuccessResponse("deleted"))
    /\ UNCHANGED <<supVars, buildVars, gitVars, w_req, w_ops, w_build>>

\* The awaited call ends: it returns, it raises, or (get_sandbox_by_id)
\* it finds no sandbox; api_snapshot_sandbox then calls take_snapshot.
awaited_call_ends ==
    /\ w_pc = "awaiting"
    /\ LET e == w_req.endpoint IN
       \E result \in {"returns", "raises"}
                     \cup (IF e = "api_snapshot_sandbox" THEN {"none"} ELSE {}) :
          CASE result = "raises" ->
                  /\ Respond(ResponseTo(e, OtherException))
                  /\ UNCHANGED <<w_ops, w_build>>
            [] result = "none" ->
                  /\ Respond(ResponseTo(e, HTTPException(404, "Sandbox not found")))
                  /\ UNCHANGED <<w_ops, w_build>>
            [] OTHER ->
                  IF e = "api_snapshot_sandbox"
                  THEN \E taken \in BOOLEAN :
                          /\ w_ops' = Append(w_ops, TakeSnapshot)
                          /\ Respond(IF taken THEN SuccessResponse("image")
                                     ELSE ResponseTo(e, OtherException))
                          /\ UNCHANGED w_build
                  ELSE IF e = "api_build_repo_image"
                  THEN /\ Respond(SuccessResponse("building"))
                       /\ w_build' = "spawned"
                       /\ UNCHANGED w_ops
                  ELSE /\ Respond(SuccessResponse("sandbox"))
                       /\ UNCHANGED <<w_ops, w_build>>
    /\ UNCHANGED <<supVars, buildVars, gitVars, w_req>>

\* Python binds the keyword arguments to build_repo_image's parameters:
\* an unknown keyword is a TypeError.
AcceptsKwargs(kwargs) == kwargs \subseteq BuildRepoImageParams

\* The worker invokes the spawned call build_repo_image(**kwargs): the
\* body starts, or the call fails with TypeError before its first line.
build_worker_invoked ==
    /\ w_build = "spawned"
    /\ w_build' = IF AcceptsKwargs(w_ops[Len(w_ops)].kwargs)
                  THEN "started" ELSE "type_error"
    /\ UNCHANGED <<supVars, buildVars, gitVars, w_pc, w_req, w_resp, w_ops>>

\* ------------------------------------------------------------ git steps

\* Phases 1 and 2 of the runtime variant at the grain of their git
\* commands.  A command the code waits for (wait() or communicate()) has
\* exited when its step ends; a command the code only spawns stays in
\* g_running until git_command_exits takes it out.

GitConfigs ==
    [repo_exists : BOOLEAN,      \* self.repo_path.exists()
     repo_configured : BOOLEAN,  \* repo_owner and repo_name are set
     token : BOOLEAN,            \* _generate_github_token() returned a token
     identity : BOOLEAN]         \* git_user_name and git_user_email are set

\* The git steps are not running (the other specifications).
GitIdle ==
    /\ g_pc = "idle"
    /\ g_cfg = [repo_exists |-> FALSE, repo_configured |-> FALSE,
                token |-> FALSE, identity |-> FALSE]
    /\ g_running = {}
    /\ g_overlaps = {}

GitInit ==
    /\ g_pc = "clone"
    /\ g_cfg \in GitConfigs
    /\ g_running = {}
    /\ g_overlaps = {}

\* create_subprocess_exec starts command c: every command still running
\* now runs together with it.
Launched(c) == g_overlaps \cup {<<r, c>> : r \in g_running}

\* perform_git_sync up to the end of the clone: without a repository and
\* without a repository name it returns; the clone is waited for.
git_clone ==
    /\ g_pc = "clone"
    /\ IF g_cfg.repo_exists
       THEN /\ g_pc' = "set_url"
            /\ UNCHANGED <<g_cfg, g_overlaps>>
       ELSE IF ~g_cfg.repo_configured
       THEN /\ g_pc' = "identity"
            /\ UNCHANGED <<g_cfg, g_overlaps>>
       ELSE \E cloned \in BOOLEAN :
               /\ g_overlaps' = Launched("clone")
               /\ g_cfg' = [g_cfg EXCEPT !.repo_exists = cloned]
               /\ g_pc' = IF cloned THEN "set_url" ELSE "identity"
    /\ UNCHANGED <<supVars, buildVars, webVars, g_running>>

\* `git remote set-url origin <auth_url>` when a token is there: the
\* process is created and not waited for.
git_remote_set_url ==
    /\ g_pc = "set_url"
    /\ IF g_cfg.token
       THEN /\ g_overlaps' = Launched("remote set-url")
            /\ g_running' = g_running \cup {"remote set-url"}
       ELSE UNCHANGED <<g_overlaps, g_running>>
    /\ g_pc' = "fetch"
    /\ UNCHANGED <<supVars, buildVars, webVars, g_cfg>>

\* `git fetch origin`, waited for; a non-zero exit ends perform_git_sync.
git_fetch ==
    /\ g_pc = "fetch"
    /\ g_overlaps' = Launched("fetch")
    /\ \E fetched \in BOOLEAN : g_pc' = IF fetched THEN "rebase" ELSE "identity"
    /\ UNCHANGED <<supVars, buildVars, webVars, g_cfg, g_running>>

\* `git rebase origin/<branch>`, waited for; when it fails with a rebase
\* in progress, `git rebase --abort` is created and not waited for.
git_rebase ==
    /\ g_pc = "rebase"
    /\ \E rebased \in BOOLEAN, in_progress \in BOOLEAN :
          IF ~rebased /\ in_progress
          THEN /\ g_overlaps' = Launched("rebase")
                     \cup {<<r, "rebase --abort">> : r \in g_running}
               /\ g_running' = g_running \cup {"rebase --abort"}
          ELSE /\ g_overlaps' = Launched("rebase")
               /\ UNCHANGED g_running
    /\ g_pc' = "rev_parse"
    /\ UNCHANGED <<supVars, buildVars, webVars, g_cfg>>

\* `git rev-parse HEAD`, waited for (communicate); perform_git_sync returns.
git_rev_parse ==
    /\ g_pc = "rev_parse"
    /\ g_overlaps' = Launched("rev-parse")
    /\ g_pc' = "identity"
    /\ UNCHANGED <<supVars, buildVars, webVars, g_cfg, g_running>>

\* configure_git_identity up to `git config --local user.name`, which is
\* created and not waited for.
git_config_user_name ==
    /\ g_pc = "identity"
    /\ IF g_cfg.identity /\ g_cfg.repo_exists
       THEN /\ g_overlaps' = Launched("config user.name")
            /\ g_running' = g_running \cup {"config user.name"}
            /\ g_pc' = "config_email"
       ELSE /\ g_pc' = "p3"
            /\ UNCHANGED <<g_overlaps, g_running>>
    /\ UNCHANGED <<supVars, buildVars, webVars, g_cfg>>

\* `git config --local user.email`, created and not waited for.
git_config_user_email ==
    /\ g_pc = "config_email"
    /\ g_overlaps' = Launched("config user.email")
    /\ g_running' = g_running \cup {"config user.email"}
    /\ g_pc' = "p3"
    /\ UNCHANGED <<supVars, buildVars, webVars, g_cfg>>

\* run() goes on to phase 3 (run_setup_script).
setup_begins ==
    /\ g_pc = "p3"
    /\ g_overlaps' = Launched("phase 3")
    /\ g_pc' = "setup"
    /\ UNCHANGED <<supVars, buildVars, webVars, g_cfg, g_running>>

\* A git command nobody waits for exits.
git_command_exits ==
    /\ g_pc # "idle"
    /\ \E c \in g_running : g_running' = g_running \ {c}
    /\ UNCHANGED <<supVars, buildVars, webVars, g_pc, g_cfg, g_overlaps>>

InitGit == SupIdle /\ BuildIdle /\ WebIdle /\ GitInit

NextGit ==
    \/ git_clone
    \/ git_remote_set_url
    \/ git_fetch
    \/ git_rebase
    \/ git_rev_parse
    \/ git_config_user_name
    \/ git_config_user_email
    \/ setup_begins
    \/ git_command_exits

SpecGit == InitGit /\ [][NextGit]_vars

InitWeb == SupIdle /\ BuildIdle /\ WebInit /\ GitIdle

NextWeb ==
    \/ api_create_sandbox
    \/ api_warm_sandbox
    \/ api_snapshot
    \/ api_snapshot_sandbox
    \/ api_restore_sandbox
    \/ api_build_repo_image
    \/ api_delete_provider_image
    \/ awaited_call_ends
    \/ build_worker_invoked

SpecWeb == InitWeb /\ [][NextWeb]_vars

Init == SupInit /\ BuildIdle /\ WebIdle /\ GitIdle

Next ==
    \/ perform_git_sync
    \/ verify_workspace
    \/ configure_git_identity
    \/ run_setup_script
    \/ start_opencode
    \/ wait_for_health
    \/ wait_for_health_response
    \/ start_bridge
    \/ start_bridge_early_exit
    \/ monitor_processes
    \/ monitor_bridge_check
    \/ monitor_sleep
    \/ report_fatal_error
    \/ shutdown
    \/ shutdown_bridge_wait
    \/ shutdown_agent_wait
    \/ agent_exit
    \/ bridge_exit
    \/ bridge_reaped
    \/ handle_signal

Spec == Init /\ [][Next]_vars

InitBuild == SupIdle /\ BuildInit /\ WebIdle /\ GitIdle

NextBuild ==
    \/ build_repo_image
    \/ create_build_sandbox
    \/ sandbox_wait
    \/ snapshot_filesystem
    \/ callback_attempt
    \/ callback_response
    \/ callback_sleep

SpecBuild == InitBuild /\ [][NextBuild]_vars

\* ------------------------------------------------------------ claims

\* The coroutine has left startup and monitoring for the shutdown path.
ShuttingDown ==
    pc \in {"fatal_post", "shutdown_bridge", "shutdown_bridge_wait",
            "shutdown_agent_wait", "done"}

\* C1: every spawn of the bridge, the first one in start_bridge and every
\* re-spawn by the monitor, happens while opencode_ready is set and after
\* a health probe of the agent held in opencode_process has succeeded.
C1_BridgeSpawnAfterReady ==
    [][bridge_spawns' # bridge_spawns => opencode_ready /\ probe # "none"]_vars

\* C1 witness: the bridge was re-spawned after the agent had been restarted.
C1_Witness ==
    bridge_spawns >= 2 /\ restart_count >= 1 /\ IsRunning(bridge_process)

\* C2: each child is spawned at most MAX_RESTARTS + 1 times; once a
\* restart counter exceeds MAX_RESTARTS the Supervisor has left monitoring
\* for shutdown and that child is never spawned again.
C2_RestartCeiling ==
    /\ [](/\ agent_spawns <= MAX_RESTARTS + 1
          /\ bridge_spawns <= MAX_RESTARTS + 1
          /\ (restart_count > MAX_RESTARTS => ShuttingDown)
          /\ (bridge_restart_count > MAX_RESTARTS => ShuttingDown))
    /\ [][/\ (restart_count > MAX_RESTARTS => agent_spawns' = agent_spawns)
          /\ (bridge_restart_count > MAX_RESTARTS =>
                  bridge_spawns' = bridge_spawns)]_vars

\* C2 witness: the agent was spawned six times and its sixth exit ended
\* the run.
C2_Witness ==
    /\ agent_spawns = MAX_RESTARTS + 1
    /\ restart_count > MAX_RESTARTS
    /\ pc = "done"

\* C3 (as claimed, for every variant): while monitoring, a bridge that
\* exited with code 0 is not counted in bridge_restart_count and is not
\* spawned again.
C3_BridgeZeroNoRestart ==
    [][(in_monitor /\ HasExited(bridge_process) /\ bridge_process.code = 0)
          => /\ bridge_restart_count' = bridge_restart_count
             /\ bridge_spawns' = bridge_spawns]_vars

\* C4 (as claimed): when run() returns every agent and bridge process the
\* Supervisor spawned has its returncode set.
C4_NoOrphans ==
    pc = "done" =>
        /\ ~IsRunning(opencode_process)
        /\ ~IsRunning(bridge_process)
        /\ unreaped = 0

\* The monitor runs its agent branch on an agent that has exited.
ObservesAgentExit ==
    /\ pc = "mon_loop" /\ pc' # pc
    /\ ~(variant = "runtime" /\ shutdown_event)
    /\ HasExited(opencode_process)

\* The monitor runs its bridge branch on a bridge that has crashed (in
\* the runtime variant an exit with code 0 is a graceful exit, no crash).
ObservesBridgeCrash ==
    /\ pc' # pc
    /\ \/ pc = "mon_bridge_check"
       \/ /\ pc = "mon_loop"
          /\ ~(variant = "runtime" /\ shutdown_event)
          /\ ~HasExited(opencode_process)
    /\ HasExited(bridge_process)
    /\ variant = "runtime" => bridge_process.code # 0

C10_ReadyWithinTimeout == opencode_ready => probe = "in_time"

\* C10 (amended): whenever opencode_ready is set, the agent held in
\* opencode_process answered a probe that was sent before the deadline, so
\* at most one request timeout after HEALTH_CHECK_TIMEOUT; the latch is
\* clear from the spawn of an agent until that agent's probe succeeds.
C10_ReadyMeansProbed == opencode_ready => probe \in {"in_time", "late"}

\* C10 witness: a restarted agent set the latch with a probe answered
\* after the deadline.
C10_Witness == opencode_ready /\ restart_count >= 1 /\ probe = "late"

\* The callbacks of one kind that build_repo_image made.
Attempted(kind) == \E i \in DOMAIN cb_log : cb_log[i].kind = kind

\* build_repo_image has returned or raised.
BuildFinished == b_pc \in {"done", "raised"}

\* C5: the success callback and the failure callback are never both
\* attempted in one invocation, also when every delivery attempt of the
\* success callback failed.
C5_CallbacksExclusive == ~(Attempted("success") /\ Attempted("failure"))

\* C5 witness: the success callback failed three times and the build
\* returned with that one callback made.
C5_Witness ==
    /\ b_pc = "done"
    /\ Len(cb_log) = 1
    /\ cb_log[1].kind = "success"
    /\ cb_log[1].returned = "false"
    /\ cb_log[1].requests = CALLBACK_MAX_RETRIES

\* C6 (as claimed, for the invocations that were given a callback_url):
\* the invocation attempts exactly one of the two callbacks, the success
\* callback iff the snapshot returned an image id, the failure callback
\* otherwise.
C6_ExactlyOneCallback ==
    (BuildFinished /\ callback_url) =>
        /\ Attempted("success") # Attempted("failure")
        /\ Attempted("success") <=> snapshot_ok

\* What C7 says of one callback, but for the number of requests of a
\* callback whose attempts all failed.
RetryBound(r) ==
    /\ r.requests <= CALLBACK_MAX_RETRIES
    /\ r.late_requests = 0
    /\ r.got_2xx => r.returned = "true"
    /\ Len(r.sleeps) <= CALLBACK_MAX_RETRIES - 1
    /\ r.returned # "pending" => Len(r.sleeps) = r.mints - 1
    /\ r.returned = "false" => r.mints = CALLBACK_MAX_RETRIES

\* C7 (as claimed): at most 3 requests, none after the first 2xx, exactly
\* 3 requests when every attempt failed (a token-mint error included), and
\* a sleep only between two attempts.
C7_RetryBoundThreeRequests ==
    \A i \in DOMAIN cb_log :
        /\ RetryBound(cb_log[i])
        /\ cb_log[i].returned = "false" =>
               cb_log[i].requests = CALLBACK_MAX_RETRIES

\* C7 (amended): at most 3 requests, none after the first 2xx, exactly 3
\* attempts when every attempt failed, each with one request unless its
\* token mint raised, and a sleep only between two attempts.
C7_RetryBound ==
    \A i \in DOMAIN cb_log :
        /\ RetryBound(cb_log[i])
        /\ cb_log[i].requests = cb_log[i].mints - cb_log[i].mint_errors

\* C7 witness: three requests failed and the callback returned False
\* after two sleeps.
C7_Witness ==
    \E i \in DOMAIN cb_log :
        /\ cb_log[i].returned = "false"
        /\ cb_log[i].requests = CALLBACK_MAX_RETRIES
        /\ Len(cb_log[i].sleeps) = CALLBACK_MAX_RETRIES - 1

\* C8 (as claimed): the sleep after the first failed attempt is 2 s and
\* the sleep after the second is 8 s.
C8_Delays ==
    \A i \in DOMAIN cb_log :
        /\ Len(cb_log[i].sleeps) >= 1 => cb_log[i].sleeps[1] = 2
        /\ Len(cb_log[i].sleeps) >= 2 => cb_log[i].sleeps[2] = 8

\* C11 (as claimed): once shutdown_event is set while the Supervisor is
\* monitoring, in the poll sleep or in a restart backoff sleep, the monitor
\* sleeps no longer than one poll interval before it stops.
C11_CancellationLatency == cancel_ticks <= TICKS_PER_SECOND * POLL_INTERVAL

\* C14 (as claimed): an exception raised in a startup phase or in
\* monitoring is caught by run(), a fatal error is reported for it, and
\* then shutdown() runs: once the shutdown sequence has begun the
\* exception has its fatal report, and the sequence is never begun again.
C14_ExceptionReported ==
    /\ []((caught # "" /\ ShuttingDown) =>
            \E i \in DOMAIN fatal_reports : fatal_reports[i].msg = caught)
    /\ [][(ShuttingDown /\ pc # "fatal_post") =>
              (ShuttingDown' /\ pc' \notin {"fatal_post", "shutdown_bridge"})
              \/ pc' = pc]_vars

\* A child has been sent terminate or kill: shutdown() has begun.
TerminateSent == opencode_process.sig # "none" \/ bridge_process.sig # "none"

\* C15: while the POST of a fatal-error report is in flight the shutdown
\* sequence has not begun: no child has been sent terminate or kill.
C15_PostBeforeShutdown ==
    \A i \in DOMAIN fatal_reports :
        fatal_reports[i].post = "pending" =>
            pc = "fatal_post" /\ ~TerminateSent

\* C15 witness: a fatal report was posted and shutdown then terminated the
\* agent.
C15_Witness ==
    /\ pc = "done"
    /\ opencode_process.sig # "none"
    /\ \E i \in DOMAIN fatal_reports :
          fatal_reports[i].post \in {"delivered", "failed"}

\* C16 (as claimed, for every variant): when run() has returned after a
\* restart counter exceeded MAX_RESTARTS, a fatal error was reported that
\* names the child and the counter's value, and shutdown_event is set.
C16_ExhaustionReported ==
    (pc = "done" /\ (restart_count > MAX_RESTARTS
                     \/ bridge_restart_count > MAX_RESTARTS)) =>
        /\ shutdown_event
        /\ \E i \in DOMAIN fatal_reports :
              \/ /\ fatal_reports[i].msg = "agent"
                 /\ fatal_reports[i].n = restart_count
                 /\ restart_count = MAX_RESTARTS + 1
              \/ /\ fatal_reports[i].msg = "bridge"
                 /\ fatal_reports[i].n = bridge_restart_count
                 /\ bridge_restart_count = MAX_RESTARTS + 1

\* C17 (as claimed): an agent that exits right after its spawn, before it
\* ever answered a health probe, for at most the fifth time, is restarted:
\* without a signal the Supervisor does not go to shutdown and reports no
\* fatal error.
C17_FlappingAgentRestarted ==
    (/\ HasExited(opencode_process)
     /\ opencode_process.early
     /\ agent_spawns <= MAX_RESTARTS
     /\ ~shutdown_event) =>
        ~ShuttingDown /\ fatal_reports = <<>>

\* C18: shutdown() terminates the bridge first and sends the agent's
\* terminate only when the bridge has exited or has been killed; kill
\* follows a terminate; a child whose returncode is set is sent nothing.
C18_ShutdownOrder ==
    /\ [](opencode_process.sig # "none" =>
              ~(IsRunning(bridge_process) /\ bridge_process.sig # "kill"))
    /\ [][/\ HasExited(opencode_process) =>
                 opencode_process'.sig = opencode_process.sig
          /\ HasExited(bridge_process) =>
                 bridge_process'.sig = bridge_process.sig
          /\ (opencode_process'.sig = "kill" /\ opencode_process.sig # "kill")
                 => opencode_process.sig = "terminate"
          /\ (bridge_process'.sig = "kill" /\ bridge_process.sig # "kill")
                 => bridge_process.sig = "terminate"]_vars

\* C18 witness: the bridge ignored terminate and was killed, then the
\* agent was terminated and exited in time.
C18_Witness ==
    /\ pc = "done"
    /\ bridge_process.sig = "kill"
    /\ opencode_process.sig = "terminate"
    /\ HasExited(opencode_process)

\* C12: _callback_with_retry never raises to its caller, whatever fails
\* in its attempts; it returns True iff some attempt was answered with a
\* 2xx status and False otherwise.
C12_CallbackNeverRaises ==
    /\ b_pc # "raised" \/ cb_log = <<>>
    /\ \A i \in DOMAIN cb_log :
          /\ cb_log[i].returned \in {"pending", "true", "false"}
          /\ cb_log[i].returned = "true" => cb_log[i].got_2xx
          /\ cb_log[i].returned = "false" => ~cb_log[i].got_2xx

\* C12 witness: a callback returned False after a token-mint failure and a
\* failed request.
C12_Witness ==
    \E i \in DOMAIN cb_log :
        /\ cb_log[i].returned = "false"
        /\ cb_log[i].mint_errors >= 1
        /\ cb_log[i].requests >= 1

\* C13 (as claimed): no exception leaves build_repo_image: whichever step
\* fails, the invocation returns normally and, with a callback_url, the
\* failure callback was made.
C13_NoExceptionCrosses ==
    BuildFinished =>
        /\ b_pc = "done"
        /\ (callback_url /\ ~snapshot_ok) => Attempted("failure")

\* C19: after the build sandbox exited with a non-zero code n the HEAD SHA
\* is not read, no snapshot is taken, no success callback is attempted,
\* and the error, also in the failure payload, is "Build sandbox exited
\* with code <n>".
C19_NonZeroExitFails ==
    exit_code > 0 =>
        /\ b_pc # "snapshot"
        /\ ~base_sha /\ ~snapshot_ok
        /\ ~Attempted("success")
        /\ build_error.text = "Build sandbox exited with code"
        /\ build_error.code = exit_code
        /\ \A i \in DOMAIN cb_log :
              /\ cb_log[i].kind = "failure"
              /\ cb_log[i].error.text = "Build sandbox exited with code"
              /\ cb_log[i].error.code = exit_code

\* C19 witness: the sandbox exited non-zero and the failure callback was
\* delivered.
C19_Witness ==
    /\ b_pc = "done"
    /\ exit_code > 0
    /\ Len(cb_log) = 1
    /\ cb_log[1].kind = "failure"
    /\ cb_log[1].returned = "true"

\* C20 (as claimed): the failure callback goes to callback_url with its
\* suffix /build-complete replaced by /build-failed and every piece before
\* the suffix left as it is.
C20_FailureUrlSuffix ==
    \A i \in DOMAIN cb_log :
        cb_log[i].kind = "failure" =>
            /\ Len(cb_log[i].url) = Len(url)
            /\ \A k \in 1 .. Len(url) - 1 : cb_log[i].url[k] = url[k]
            /\ url[Len(url)] = "/build-complete" =>
                   cb_log[i].url[Len(url)] = "/build-failed"

\* C21 (as claimed): in the runtime variant git_sync_complete is set
\* whenever perform_git_sync has returned, whichever way it went (clone
\* skipped or failed, fetch failed, rebase failed, exception, success), so
\* it is set before the agent is spawned.
C21_SyncLatchedOnReturn ==
    variant = "runtime" =>
        /\ (pc \notin {"idle", "p1"} /\ caught # "clone_spawn_error")
               => git_sync_complete
        /\ agent_spawns >= 1 => git_sync_complete

\* The exceptions that phases 1 to 3 let through to run().
StartupStepErrors == {"clone_spawn_error", "setup_timeout_value"}

\* C22 (as claimed, for both variants): no failure of phases 1 to 3 (the
\* clone, the fetch, the rebase, the git identity, the setup hook absent,
\* failing or timing out, a malformed SETUP_TIMEOUT_SECONDS) reaches run()
\* as an exception, so none keeps the agent from starting and none is
\* reported as fatal.
C22_StartupStepsNonFatal ==
    /\ caught \notin StartupStepErrors
    /\ \A i \in DOMAIN fatal_reports :
          fatal_reports[i].msg \notin StartupStepErrors

\* C23 (as claimed, for both variants): when the health probe of the
\* startup misses its deadline, a fatal error is reported, no bridge is
\* ever spawned, Monitoring is never entered, and once run() has returned
\* the unhealthy agent has exited or was sent terminate.
C23_UnhealthyStartupIsFatal ==
    (caught = "not_healthy" /\ restart_count = 0) =>
        /\ \E i \in DOMAIN fatal_reports : fatal_reports[i].msg = "not_healthy"
        /\ bridge_spawns = 0
        /\ ~in_monitor
        /\ pc = "done" =>
              (HasExited(opencode_process) \/ opencode_process.sig # "none")

\* The configuration under which start_bridge spawns a bridge: the runtime
\* variant needs control_plane_url and session_id, the local variant
\* CONTROL_PLANE_WS_URL or else both of them.
BridgeWanted ==
    IF variant = "runtime"
    THEN control_plane_url /\ session_id
    ELSE control_plane_ws_url \/ (control_plane_url /\ session_id)

\* C24 (as claimed): the bridge is spawned in phase 5 exactly when
\* control_plane_url and session_id are both non-empty; when either is
\* empty no bridge is ever created and bridge_process stays absent.
C24_BridgeIffUrlAndSession ==
    /\ ~(control_plane_url /\ session_id) =>
          (bridge_spawns = 0 /\ bridge_process = NoProcess)
    /\ (in_monitor /\ control_plane_url /\ session_id) => bridge_spawns >= 1

\* C24 (amended): the bridge is spawned in phase 5 exactly when the
\* variant's configuration asks for one (BridgeWanted); otherwise no bridge
\* is ever created, bridge_process stays absent, and the Supervisor still
\* enters Monitoring with the agent alone (the witness).
C24_BridgeIffConfigured ==
    /\ ~BridgeWanted => (bridge_spawns = 0 /\ bridge_process = NoProcess)
    /\ (in_monitor /\ BridgeWanted) => bridge_spawns >= 1

\* C24 witness: Monitoring runs with the agent only, in the runtime variant
\* with a control_plane_url and no session_id.
C24_Witness ==
    /\ variant = "runtime"
    /\ control_plane_url /\ ~session_id
    /\ in_monitor
    /\ pc = "mon_sleep"
    /\ IsRunning(opencode_process)
    /\ bridge_process = NoProcess

\* C25: the fatal reporter is best effort.  A call makes one POST when
\* control_plane_url is non-empty and none when it is empty; whatever the
\* POST does (2xx, non-2xx, timeout, connection error) the call returns
\* and never raises, so the step after it is the shutdown sequence; and
\* run() never returns with a POST still in flight.
C25_ReporterBestEffort ==
    /\ \A i \in DOMAIN fatal_reports :
          /\ (fatal_reports[i].post = "none") <=> ~control_plane_url
          /\ fatal_reports[i].post = "pending" => pc = "fatal_post"
    /\ (fatal_reports # <<>> /\ pc \notin {"fatal_post", "idle"}) =>
          (ShuttingDown \/ shutdown_event)

\* C25 witness: the POST of a fatal report failed and run() still went
\* through shutdown and returned.
C25_Witness ==
    /\ pc = "done"
    /\ \E i \in DOMAIN fatal_reports : fatal_reports[i].post = "failed"

\* C26 (as claimed): once shutdown_event is set, opencode_ready is not
\* set any more: a health probe that is polling fails with the
\* shutdown-requested error and reports no success.
C26_NoReadyAfterShutdown ==
    [][shutdown_event => (opencode_ready' => opencode_ready)]_vars

\* C27: in the local variant, when /workspace/.git is missing, startup is
\* aborted: the setup hook is not run, no agent and no bridge is spawned,
\* Monitoring is never entered, nothing is reported, and run() returns
\* through the shutdown sequence.
C27_MissingWorkspaceAborts ==
    (variant = "local" /\ ~git_dir_exists) =>
        /\ pc \in {"p1", "shutdown_bridge", "done"}
        /\ agent_spawns = 0
        /\ bridge_spawns = 0
        /\ ~in_monitor
        /\ ~opencode_ready
        /\ caught = ""
        /\ fatal_reports = <<>>

\* C27 witness: run() has returned without a workspace.
C27_Witness ==
    /\ variant = "local"
    /\ ~git_dir_exists
    /\ pc = "done"

\* C28: the callback client mints its token afresh in every attempt.  In
\* every call of _callback_with_retry the number of mint calls equals the
\* number of attempts started, every request carries the token minted in
\* its own attempt, and no token is used by two requests.
C28_FreshTokenPerAttempt ==
    \A i \in DOMAIN cb_log :
        /\ cb_log[i].mints = cb_log[i].attempts
        /\ \A k \in DOMAIN cb_log[i].sent :
              cb_log[i].sent[k].token = cb_log[i].sent[k].attempt
        /\ \A j, k \in DOMAIN cb_log[i].sent :
              j # k => cb_log[i].sent[j].token # cb_log[i].sent[k].token

\* C28 witness: a callback whose first mint raised and whose second and
\* third attempts each sent a request.
C28_Witness ==
    \E i \in DOMAIN cb_log :
        /\ cb_log[i].attempts = 3
        /\ cb_log[i].mint_errors = 1
        /\ Len(cb_log[i].sent) = 2
        /\ cb_log[i].returned # "pending"

\* C29 (as claimed): with an empty callback_url build_repo_image makes no
\* callback request, on the success path and on the failure path alike,
\* and returns normally.
C29_NoUrlNoCallback ==
    ~callback_url =>
        /\ cb_log = <<>>
        /\ b_pc # "raised"

\* C30 (as claimed): a failure to mint the clone token and a failure to
\* read HEAD are not fatal, and whenever the sandbox exited 0 and the
\* snapshot succeeded the success callback is attempted.
C30_SuccessCallbackAttempted ==
    (BuildFinished /\ exit_code = 0 /\ snapshot_ok) => Attempted("success")

\* C30 (amended): a failure to mint the clone token and a failure to read
\* HEAD are not fatal: after the sandbox exited 0 the only failures are
\* the snapshot's and the success callback's.  When the sandbox exited 0
\* and the snapshot succeeded, the success callback and not the failure
\* callback is attempted if callback_url is non-empty, and no callback at
\* all if it is empty.
C30_HelperFailuresNonFatal ==
    /\ (exit_code = 0 /\ build_error # NoError) =>
          build_error.text \in {"snapshot_filesystem failed", "callback raised"}
    /\ (BuildFinished /\ exit_code = 0 /\ snapshot_ok) =>
          /\ callback_url => (Attempted("success") /\ ~Attempted("failure"))
          /\ ~callback_url => cb_log = <<>>

\* C30 witness: neither the clone token nor HEAD was obtained and the
\* success callback was delivered.
C30_Witness ==
    /\ b_pc = "done"
    /\ ~clone_token /\ ~base_sha
    /\ exit_code = 0 /\ snapshot_ok
    /\ \E i \in DOMAIN cb_log :
          cb_log[i].kind = "success" /\ cb_log[i].returned = "true"

\* C33 (as claimed): a shutdown started by SIGTERM or SIGINT is graceful
\* wherever the signal arrives; in particular when it interrupts the
\* health probe (the shutdown-requested error) no fatal error is
\* reported, and once run() has returned each child has exited or was
\* sent terminate.
C33_SignalShutdownGraceful ==
    caught = "shutdown_requested" =>
        /\ fatal_reports = <<>>
        /\ pc = "done" =>
              /\ opencode_process.present =>
                    (opencode_process.exited \/ opencode_process.sig # "none")
              /\ bridge_process.present =>
                    (bridge_process.exited \/ bridge_process.sig # "none")

\* The delays of the first MAX_RESTARTS restarts, in seconds.
BackoffSequence == <<2, 4, 8, 16, 32>>

\* C34: for each child the n-th restart (n the child's counter after the
\* increment, 1 <= n <= MAX_RESTARTS) comes after a backoff sleep of
\* min(2^n, 60) seconds, that is 2, 4, 8, 16, 32: the 60 s cap is never
\* the delay applied.  A child is spawned again only out of its backoff
\* sleep.
C34_BackoffSequence ==
    /\ [](pc = "mon_agent_backoff" =>
            /\ restart_count \in 1 .. MAX_RESTARTS
            /\ BackoffDelay(restart_count) = BackoffSequence[restart_count]
            /\ SleepTicks(pc, restart_count, bridge_restart_count)
                  = TICKS_PER_SECOND * BackoffSequence[restart_count])
    /\ [](pc = "mon_bridge_backoff" =>
            /\ bridge_restart_count \in 1 .. MAX_RESTARTS
            /\ BackoffDelay(bridge_restart_count)
                  = BackoffSequence[bridge_restart_count]
            /\ SleepTicks(pc, restart_count, bridge_restart_count)
                  = TICKS_PER_SECOND * BackoffSequence[bridge_restart_count])
    /\ [][(agent_spawns' > agent_spawns /\ agent_spawns >= 1)
             => pc = "mon_agent_backoff"]_vars
    /\ [][(bridge_spawns' > bridge_spawns /\ bridge_spawns >= 1)
             => pc = "mon_bridge_backoff"]_vars

\* C34 witness: the fifth restart of the agent waits 32 s.
C34_Witness ==
    /\ pc = "mon_agent_backoff"
    /\ restart_count = MAX_RESTARTS
    /\ BackoffDelay(restart_count) = 32

\* C35 (as claimed): once shutdown_event is set, no agent and no bridge
\* is spawned any more.
C35_NoSpawnAfterShutdown ==
    [][shutdown_event =>
          (agent_spawns' = agent_spawns /\ bridge_spawns' = bridge_spawns)]_vars

\* C36: in one run at most one fatal-error report is made.
C36_AtMostOneFatalReport == Len(fatal_reports) <= 1

\* C36 witness: the monitor reported a restart exhaustion, its POST ended,
\* and run() returned.
C36_Witness ==
    /\ pc = "done"
    /\ Len(fatal_reports) = 1
    /\ fatal_reports[1].msg \in {"agent", "bridge"}
    /\ fatal_reports[1].post \in {"delivered", "failed"}

\* C37: an agent (bridge) is spawned only when the agent (bridge) handle
\* held before is absent or has reported an exit code: a handle is never
\* overwritten while its process runs, so at most one agent and one
\* bridge are alive.
C37_OneLiveChildEach ==
    /\ [][agent_spawns' > agent_spawns => ~IsRunning(opencode_process)]_vars
    /\ [][bridge_spawns' > bridge_spawns => ~IsRunning(bridge_process)]_vars

\* C37 witness: both children were restarted and run.
C37_Witness ==
    /\ agent_spawns >= 2
    /\ bridge_spawns >= 2
    /\ IsRunning(opencode_process)
    /\ IsRunning(bridge_process)

\* C38 (as claimed): the failure callback never goes to the URL the
\* success callback would go to: its URL differs from callback_url.
C38_FailureUrlDiffers ==
    \A i \in DOMAIN cb_log :
        cb_log[i].kind = "failure" => cb_log[i].url # url

\* C31: every authenticated endpoint checks the token before any other
\* validation or side effect.  When verify_internal_token returns False,
\* whatever else is wrong with the request, no manager operation and no
\* build spawn is invoked, and the response is the structured 401 error
\* with code "unauthorized".
C31_AuthFirst ==
    w_req.auth = "invalid" =>
        /\ w_ops = <<>>
        /\ w_build = "none"
        /\ w_pc \in {"request", "done"}
        /\ w_pc = "done" =>
              w_resp = [status |-> 401, success |-> FALSE,
                        code |-> "unauthorized",
                        message |-> "Unauthorized: Invalid or missing authentication token",
                        data |-> ""]

\* C31 witness: api_restore_sandbox answered 401 to a request whose
\* control_plane_url, snapshot_image_id and timeout_seconds are all bad.
C31_Witness ==
    /\ w_req.endpoint = "api_restore_sandbox"
    /\ w_req.auth = "invalid"
    /\ w_req.cp_url = "invalid"
    /\ w_req.missing # {}
    /\ w_req.timeout.type = "str_text"
    /\ w_pc = "done"
    /\ w_resp.status = 401

\* The request passes every check made before timeout_seconds is read.
ReachesTimeout(req) ==
    req.auth = "valid" /\ req.cp_url # "invalid" /\ req.missing = {}

\* C32 (as claimed): api_create_sandbox creates the sandbox with the
\* request's timeout_seconds converted to an integer (the default when
\* it is absent); when the value does not convert, the response is the
\* structured 400 error "timeout_seconds must be an integer" and no
\* sandbox is created.
C32_TimeoutForwardedOr400 ==
    w_req.endpoint = "api_create_sandbox" =>
        /\ \A i \in DOMAIN w_ops :
              /\ IntOf(w_req.timeout).exc = "" \/ w_req.timeout.type = "none"
              /\ w_ops[i].timeout =
                    (IF w_req.timeout.type = "none"
                     THEN [default |-> TRUE, v |-> 0]
                     ELSE [default |-> FALSE, v |-> IntOf(w_req.timeout).v])
        /\ (w_pc = "done" /\ ReachesTimeout(w_req)
            /\ w_req.timeout.type # "none" /\ IntOf(w_req.timeout).exc # "") =>
              w_resp = [status |-> 400, success |-> FALSE,
                        code |-> "bad_request",
                        message |-> "timeout_seconds must be an integer",
                        data |-> ""]

\* C39 (as claimed): in phases 1 and 2 every git command has exited
\* before the next one is launched and before phase 3 begins: no two git
\* commands of the Supervisor run at the same time.
C39_GitStepsSequential == g_overlaps = {}

\* C40 (as claimed): api_build_repo_image spawns the builder only with
\* keyword arguments build_repo_image accepts, so a request answered
\* "building" leads to a build that starts; a request with an empty
\* build_id, repo_owner or repo_name spawns no build and, when
\* authenticated, is answered 400.
C40_SpawnMatchesSignature ==
    w_req.endpoint = "api_build_repo_image" =>
        /\ \A i \in DOMAIN w_ops :
              w_ops[i].kwargs \subseteq BuildRepoImageParams
        /\ w_resp.data = "building" => w_build \in {"spawned", "started"}
        /\ w_req.missing # {} =>
              /\ w_ops = <<>>
              /\ (w_pc = "done" /\ w_req.auth = "valid") => w_resp.status = 400


====
